---- MODULE Spec2Model ----
(***************************************************************************)
(* SeaTrace frontend: the timeline transport (TimelineControl and the      *)
(* zustand timeline store), the auth store and its region, the main        *)
(* rendering effect of MapView that rebuilds the hazard layers, the report *)
(* list of HazardSidebar and the cards of SocialNotifications.             *)
(*                                                                         *)
(* Specifications.  Spec: map, transport and region together.              *)
(* SpecTimeline: the transport alone, with every handler named in the      *)
(* history.  SpecPlayback: a playing transport left to its interval, under *)
(* weak fairness of the tick.  SpecScope: calls of isPointInBbox.          *)
(* SpecPanels: sidebar and notification panel.  SpecLayers: the map       *)
(* layers over reports of every severity, with the legend and the heatmap  *)
(* toggle.  SpecAuth: the auth store with a session restore in flight.     *)
(*                                                                         *)
(* Units.  Instants are whole hours counted from the start of the timeline *)
(* range (Date.getTime() / 3600000 - start).  Latitudes and longitudes are *)
(* hundredths of a degree.  Heat intensities are hundredths.               *)
(***************************************************************************)
EXTENDS Integers, FiniteSets, Sequences, TLC

VARIABLES
    selectedTimestamp,  \* useTimelineStore.selectedTimestamp
    isPlaying,          \* useTimelineStore.isPlaying
    playbackSpeed,      \* useTimelineStore.playbackSpeed
    isDragging,         \* TimelineControl: useState(false)
    showHeatmap,        \* Index: useState(true)
    visibleTypes,       \* MapView: useState(new Set([...7 kinds]))
    region,             \* useAuthStore.region
    records,            \* temporalHazardReports, the record set MapView reads
    heatLayersRef,      \* MapView: heatLayersRef.current
    circleLayersRef,    \* MapView: circleLayersRef.current
    glowLayersRef,      \* MapView: glowLayersRef.current
    mapLayers,          \* hazard layers currently added to the Leaflet map
    passOutcome,        \* how the last pass of the main rendering effect ended
    playIntervalLive,   \* TimelineControl: the interval held by
                        \* playIntervalRef.current exists and is not cleared
    orphanIntervalLive, \* an interval no longer held by the ref is not cleared
    selectedType,       \* Index: useState(null), the sidebar's kind filter
    dismissed,          \* SocialNotifications: useState(new Set())
    visibleNotifications, \* SocialNotifications: useState([]), as ids
    mounted,            \* the dashboard page, TimelineControl with it, is mounted
    user,               \* useAuthStore: user (NoUser for null)
    status,             \* useAuthStore: status
    storedToken,        \* localStorage item seatrace_token ("none" if absent)
    storedRegion,       \* localStorage item seatrace_user_region (NoRegion if
                        \* absent)
    initAuthInFlight,   \* calls of initAuth suspended at await api.getMe()
    scopeQuery,         \* a call of isPointInBbox: arguments and result
    lastEvent,          \* history: the handler, or its boundary case, that
                        \* ran last
    detailedHistory     \* history: whether lastEvent names every handler

vars == <<selectedTimestamp, isPlaying, playbackSpeed, isDragging, showHeatmap,
          visibleTypes, region, records, heatLayersRef, circleLayersRef,
          glowLayersRef, mapLayers, passOutcome, playIntervalLive,
          orphanIntervalLive, selectedType, dismissed, visibleNotifications,
          mounted, user, status, storedToken, storedRegion, initAuthInFlight,
          scopeQuery, lastEvent, detailedHistory>>

timelineVars == <<selectedTimestamp, isPlaying, playbackSpeed>>
layerVars == <<heatLayersRef, circleLayersRef, glowLayersRef, mapLayers,
               passOutcome>>
timerVars == <<playIntervalLive, orphanIntervalLive>>
panelVars == <<selectedType, dismissed, visibleNotifications>>
authVars == <<user, status, storedToken, initAuthInFlight>>
sessionVars == <<mounted, authVars>>
auxVars == <<scopeQuery, detailedHistory, sessionVars>>

-----------------------------------------------------------------------------
(* Bounds of the model *)

\* how many days beyond either end of the range the jump buttons are followed
MaxOvershootDays == 1
\* how many hazard kinds of KindSeq carry records and are toggled in the legend
NumKinds == 1
\* how many regions of RegionSeq the user may select
NumRegions == 1
\* how many notifications of NotifSeq the notification panel reads
NumNotifs == 5

-----------------------------------------------------------------------------
(* Program constants *)

TickHours == 1
HoursPerDay == 24
PastDays == 7
FutureDays == 3
DefaultDurationHours == 48
MARGIN == 50
MAX_VISIBLE_NOTIFICATIONS == 4
NotificationWindowHours == 6

Start == 0
Now == Start + PastDays * HoursPerDay
End == Now + FutureDays * HoursPerDay
totalRange == End - Start

KindSeq == <<"cyclone", "rip_current", "storm_surge", "tsunami", "high_tide",
             "erosion", "coastal_flood">>
AllKinds == {KindSeq[i] : i \in 1..Len(KindSeq)}
ModelKinds == {KindSeq[i] : i \in 1..NumKinds}
LegendTypes == {"tsunami", "cyclone", "storm_surge", "high_tide", "erosion",
                "rip_current"}

HAZARD_DURATION_HOURS ==
    [k \in AllKinds |->
        CASE k = "rip_current" -> 6
          [] k = "high_tide" -> 12
          [] k = "storm_surge" -> 48
          [] k = "tsunami" -> 24
          [] k = "coastal_flood" -> 72
          [] k = "cyclone" -> 120
          [] k = "erosion" -> 336]

disasterColors == AllKinds

Severities == {"low", "medium", "high", "critical"}
Sources == {"agency", "social", "news", "none"}
Statuses == {"verified", "unverified", "ambiguous", "false_alert", "none"}

NoRegion == [name |-> "none", bbox |-> <<0, 0, 0, 0>>]
RegionSeq == <<[name |-> "Mumbai", bbox |-> <<1885, 7275, 1928, 7305>>],
               [name |-> "Goa", bbox |-> <<1515, 7365, 1565, 7400>>],
               [name |-> "Chennai", bbox |-> <<1285, 8010, 1325, 8035>>]>>
ModelRegions == {RegionSeq[i] : i \in 1..NumRegions}

\* AuthUser: the fields the store reads; NoUser stands for null, and a user
\* without a region carries NoRegion
NoUser == [username |-> "none", region |-> NoRegion]
Users ==
    {[username |-> "asha", region |-> NoRegion]}
      \cup {[username |-> "ravi", region |-> r] : r \in ModelRegions}
NoToken == "none"

-----------------------------------------------------------------------------
(* The record set.  A HazardReport keeps the fields the rendering effect     *)
(* reads.  An absent optional field is "none" (source, verificationStatus), *)
(* FALSE (isPrediction) or 0 (durationHours: undefined and 0 are both falsy *)
(* under ||).                                                               *)

SevSeq == <<"low", "medium", "high", "critical">>

\* two timing/location slots for every modelled kind:
\*   j = 1  occurs 4 days before now in Mumbai, with the kind's seeded duration
\*   j = 2  occurs 12 hours after now near Goa, without a duration
Slots ==
    {[kind |-> i, slot |-> j,
      type |-> KindSeq[i],
      severity |-> SevSeq[((2 * i + j) % 4) + 1],
      lat |-> IF j = 1 THEN 1902 ELSE 1550,
      lng |-> IF j = 1 THEN 7285 ELSE 7380,
      timestamp |-> IF j = 1 THEN Now - 4 * HoursPerDay ELSE Now + 12,
      durationHours |-> IF j = 1 THEN HAZARD_DURATION_HOURS[KindSeq[i]] ELSE 0]
        : i \in 1..NumKinds, j \in 1..2}

\* every provenance a HazardReport can carry, in every slot
AllRecords ==
    {[id |-> <<s.kind, s.slot, src, st, pred>>,
      type |-> s.type, severity |-> s.severity, lat |-> s.lat, lng |-> s.lng,
      timestamp |-> s.timestamp, durationHours |-> s.durationHours,
      isPrediction |-> pred, source |-> src, verificationStatus |-> st]
        : s \in Slots, src \in Sources, st \in Statuses, pred \in BOOLEAN}

\* a report whose kind is none of the seven kinds the tables are keyed by and
\* that carries no durationHours: an agency report of a day before now
UnconfiguredKindRecords ==
    {[id |-> <<0, 1, "agency", "verified", FALSE>>,
      type |-> "oil_spill", severity |-> "high", lat |-> 1902, lng |-> 7285,
      timestamp |-> Now - HoursPerDay, durationHours |-> 0,
      isPrediction |-> FALSE, source |-> "agency",
      verificationStatus |-> "verified"]}

\* the record sets the run may start from: every provenance, only reports of
\* secondary sources that are not confirmed, a report of an unconfigured
\* kind, and no report at all
Datasets ==
    {AllRecords,
     {r \in AllRecords : /\ r.source \in {"news", "social", "none"}
                         /\ r.verificationStatus \in {"unverified", "false_alert", "none"}
                         /\ ~r.isPrediction},
     UnconfiguredKindRecords,
     {}}

\* hazardReports: the reports the sidebar lists
hazardReports(recs) == {r \in recs : ~r.isPrediction /\ r.source = "agency"}

\* socialNotifications, in the order of the array: sn-001, sn-002, sn-007,
\* sn-014, sn-004 (latitude 18.975 rounded), sn-006, sn-008
NotifSeq ==
    <<[id |-> "sn-001", timestamp |-> 126, lat |-> 1950, lng |-> 8850],
      [id |-> "sn-002", timestamp |-> 130, lat |-> 1200, lng |-> 8000],
      [id |-> "sn-007", timestamp |-> 129, lat |-> 1768, lng |-> 8321],
      [id |-> "sn-014", timestamp |-> 132, lat |-> 1700, lng |-> 8500],
      [id |-> "sn-004", timestamp |-> 149, lat |-> 1898, lng |-> 7283],
      [id |-> "sn-006", timestamp |-> 108, lat |-> 1554, lng |-> 7375],
      [id |-> "sn-008", timestamp |-> 142, lat |-> 2165, lng |-> 8805]>>
NotifIndexes == 1..NumNotifs

-----------------------------------------------------------------------------
(* MapView: timeline filter *)

durationMs(r) ==
    IF r.durationHours # 0 THEN r.durationHours ELSE DefaultDurationHours

expiryTime(r) == r.timestamp + durationMs(r)

\* variant: the start test written with >=, hiding a report at its own
\* occurrence instant
IsActive_StrictStart(r, t) ==
    /\ ~(r.timestamp >= t)
    /\ ~(t > expiryTime(r))

\* the two time tests of the filter callback
IsActive(r, t) ==
    /\ ~(r.timestamp > t)
    /\ ~(t > expiryTime(r))

filtered(recs, t, vis) ==
    {r \in recs : r.type \in vis /\ IsActive(r, t)}

(* MapView: category split *)

agencyReports(f) == {r \in f : r.source = "agency" /\ ~r.isPrediction}

predictionReports(f) == {r \in f : r.isPrediction}

\* variant: the status test of the verified filter left out
verifiedNews_NoStatusTest(f) ==
    {r \in f : r.source \in {"news", "social"}}

verifiedNews(f) ==
    {r \in f : r.source \in {"news", "social"} /\ r.verificationStatus = "verified"}

ambiguousNews(f) ==
    {r \in f : r.source \in {"news", "social"} /\ r.verificationStatus = "ambiguous"}

(* MapView: severity tables *)

\* variant: medium and high exchanged
VerifiedIntensity_Swapped(sev) ==
    IF sev = "critical" THEN 100
    ELSE IF sev = "high" THEN 55
    ELSE IF sev = "medium" THEN 80
    ELSE 35

VerifiedIntensity(sev) ==
    IF sev = "critical" THEN 100
    ELSE IF sev = "high" THEN 80
    ELSE IF sev = "medium" THEN 55
    ELSE 35

AmbiguousIntensity(sev) ==
    IF sev = "critical" THEN 50
    ELSE IF sev = "high" THEN 35
    ELSE IF sev = "medium" THEN 20
    ELSE 10

MarkerRadius(sev) ==
    IF sev = "critical" THEN 10
    ELSE IF sev = "high" THEN 8
    ELSE IF sev = "medium" THEN 6
    ELSE 5

(* MapView: layer construction *)

\* one heat layer per hazard kind that has reports and a colour entry
HeatLayersOf(tier, reports) ==
    {[prim |-> "heat", tier |-> tier, type |-> k,
      reports |-> {r.id : r \in {x \in reports : x.type = k}},
      points |-> {<<r.lat, r.lng, IF tier = "verified"
                                        THEN VerifiedIntensity(r.severity)
                                        ELSE AmbiguousIntensity(r.severity)>> :
                      r \in {x \in reports : x.type = k}}]
        : k \in {r.type : r \in reports} \cap disasterColors}

GlowMarkers(agency) ==
    {[prim |-> "glow", report |-> r.id, lat |-> r.lat, lng |-> r.lng,
      radius |-> MarkerRadius(r.severity) + 6]
        : r \in {x \in agency : x.type \in disasterColors}}

AgencyCircles(agency) ==
    {[prim |-> "circle", report |-> r.id, lat |-> r.lat, lng |-> r.lng,
      radius |-> MarkerRadius(r.severity), dashed |-> FALSE]
        : r \in {x \in agency : x.type \in disasterColors}}

\* variant: prediction markers drawn two pixels smaller
PredictionRadius_Smaller(sev) == MarkerRadius(sev) - 2

\* the radius table as written a second time in the prediction section
PredictionRadius(sev) ==
    IF sev = "critical" THEN 10
    ELSE IF sev = "high" THEN 8
    ELSE IF sev = "medium" THEN 6
    ELSE 5

PredictionCircles(preds) ==
    {[prim |-> "circle", report |-> r.id, lat |-> r.lat, lng |-> r.lng,
      radius |-> PredictionRadius(r.severity), dashed |-> TRUE]
        : r \in {x \in preds : x.type \in disasterColors}}

\* variant: the glow rings are not removed
ClearPreviousLayers_KeepGlow(map, heat, circle, glow) ==
    map \ (heat \cup circle)

\* "Clear previous layers": every layer held by a ref is removed from the map
ClearPreviousLayers(map, heat, circle, glow) ==
    map \ (heat \cup circle \cup glow)

\* the layers one pass creates: heat layers of both tiers, agency circles
\* with their glow rings, prediction circles
BuildLayers(recs, t, vis) ==
    LET f == filtered(recs, t, vis)
    IN  [heat |-> HeatLayersOf("verified", verifiedNews(f))
                    \cup HeatLayersOf("ambiguous", ambiguousNews(f)),
         glow |-> GlowMarkers(agencyReports(f)),
         circle |-> AgencyCircles(agencyReports(f))
                      \cup PredictionCircles(predictionReports(f))]

\* variant: the pass builds the layers whatever the heatmap toggle says
HeatmapOff_Ignored(show) == FALSE

\* "if (!showHeatmap) return": the pass stops after clearing
HeatmapOff(show) == ~show

\* the main rendering effect, run with the values of the render that
\* scheduled it.  The effect has no throw and no error path: every pass ends
\* normally.
MainRenderingEffect(t, show, vis) ==
    LET cleared == ClearPreviousLayers(mapLayers, heatLayersRef,
                                       circleLayersRef, glowLayersRef)
        built == BuildLayers(records, t, vis)
    IN  /\ passOutcome' = "ok"
        /\ IF HeatmapOff(show)
             THEN /\ heatLayersRef' = {}
                  /\ circleLayersRef' = {}
                  /\ glowLayersRef' = {}
                  /\ mapLayers' = cleared
             ELSE /\ heatLayersRef' = built.heat
                  /\ circleLayersRef' = built.circle
                  /\ glowLayersRef' = built.glow
                  /\ mapLayers' = cleared \cup heatLayersRef' \cup glowLayersRef'
                                          \cup circleLayersRef'

-----------------------------------------------------------------------------
(* locationData: isPointInBbox *)

\* variant: the four comparisons written strict
isPointInBbox_StrictEdges(lat, lng, bbox, margin) ==
    /\ lat > bbox[1] - margin
    /\ lat < bbox[3] + margin
    /\ lng > bbox[2] - margin
    /\ lng < bbox[4] + margin

isPointInBbox(lat, lng, bbox, margin) ==
    /\ lat >= bbox[1] - margin
    /\ lat <= bbox[3] + margin
    /\ lng >= bbox[2] - margin
    /\ lng <= bbox[4] + margin

\* the default parameter margin = 0.5: the value used when the caller gives
\* none
EffectiveMargin(given, margin) == IF given THEN margin ELSE MARGIN

(* HazardSidebar: the report list of one render *)

\* variant: the box test applied without looking whether a region is set
RegionSelected_Always(reg) == TRUE

\* region && region.bbox
RegionSelected(reg) == reg # NoRegion

SidebarTypeFilter(reports, type) ==
    IF type # "none" THEN {r \in reports : r.type = type} ELSE reports

filteredReports(reports, type, reg) ==
    IF RegionSelected(reg)
      THEN {r \in SidebarTypeFilter(reports, type) :
                isPointInBbox(r.lat, r.lng, reg.bbox, MARGIN)}
      ELSE SidebarTypeFilter(reports, type)

(* SocialNotifications: the effect that fills visibleNotifications *)

\* variant: the filter callback without the test of the dismissed set
NotificationPasses_ShowsDismissed(i, t, dism, reg) ==
    LET notif == NotifSeq[i]
        timeDiff == t - notif.timestamp
    IN  /\ notif.timestamp <= t
        /\ timeDiff <= NotificationWindowHours /\ timeDiff >= 0
        /\ RegionSelected(reg)
              => isPointInBbox(notif.lat, notif.lng, reg.bbox, MARGIN)

\* the filter callback, on the index of a notification in the array
NotificationPasses(i, t, dism, reg) ==
    LET notif == NotifSeq[i]
        timeDiff == t - notif.timestamp
    IN  /\ notif.timestamp <= t
        /\ notif.id \notin dism
        /\ timeDiff <= NotificationWindowHours /\ timeDiff >= 0
        /\ RegionSelected(reg)
              => isPointInBbox(notif.lat, notif.lng, reg.bbox, MARGIN)

\* j is placed before i by the (stable) sort, newest first
SortsBefore(j, i) ==
    \/ NotifSeq[j].timestamp > NotifSeq[i].timestamp
    \/ NotifSeq[j].timestamp = NotifSeq[i].timestamp /\ j < i

\* indexes sorted newest first and cut to the first n
SortedSlice(idx, n) ==
    LET rank(i) == Cardinality({j \in idx : SortsBefore(j, i)}) + 1
        len == IF Cardinality(idx) < n THEN Cardinality(idx) ELSE n
    IN  [k \in 1..len |-> NotifSeq[CHOOSE i \in idx : rank(i) = k].id]

NotificationEffect(t, dism, reg) ==
    SortedSlice({i \in NotifIndexes : NotificationPasses(i, t, dism, reg)},
                MAX_VISIBLE_NOTIFICATIONS)

-----------------------------------------------------------------------------
(* useTimelineState: the zustand store *)

TimelineStore ==
    [selectedTimestamp |-> selectedTimestamp, isPlaying |-> isPlaying,
     playbackSpeed |-> playbackSpeed]

\* zustand set(partial): Object.assign({}, state, partial)
StoreSet(state, partial) ==
    [k \in DOMAIN state |-> IF k \in DOMAIN partial THEN partial[k] ELSE state[k]]

setIsPlaying(state, playing) == StoreSet(state, [isPlaying |-> playing])

\* variant: a direct set of the timestamp also pauses
setSelectedTimestamp_Pausing(state, timestamp) ==
    StoreSet(state, [selectedTimestamp |-> timestamp, isPlaying |-> FALSE])

setSelectedTimestamp(state, timestamp) ==
    StoreSet(state, [selectedTimestamp |-> timestamp])

\* variant: the outer set merges into the state read before the updater ran,
\* losing the write of isPlaying
PlaybackTick_StaleMerge(state) ==
    LET prev == state.selectedTimestamp
        next == prev + TickHours
    IN  IF next > End
          THEN StoreSet(state, [selectedTimestamp |-> End])
          ELSE StoreSet(state, [selectedTimestamp |-> next])

\* the interval callback: setSelectedTimestamp(prev => ...).  The updater
\* runs first; when it calls setIsPlaying(false) the store already holds
\* that write when the outer set merges the returned timestamp.
PlaybackTick(state) ==
    LET prev == state.selectedTimestamp
        next == prev + TickHours
    IN  IF next > End
          THEN StoreSet(setIsPlaying(state, FALSE), [selectedTimestamp |-> End])
          ELSE StoreSet(state, [selectedTimestamp |-> next])

(* TimelineControl: slider arithmetic *)

\* variant: Math.min(100, ...) left out
ClampPercentage_NoUpper(p) ==
    IF p < 0 THEN 0 ELSE p

ClampPercentage(p) ==
    IF p < 0 THEN 0 ELSE IF p > 100 THEN 100 ELSE p

newTimestamp(percentage) == Start + (totalRange * percentage) \div 100

\* pointer positions as percentages of the slider width (multiples of 5 are
\* whole hours).  A click lands on the slider; a drag follows the pointer
\* anywhere in the document, 1100 being 100 days past the end of the range.
ClickPercentages == {25, 100}
DragPercentages == {-50, 45, 1100}

(* TimelineControl: the playback effect.  Its dependency list holds end,  *)
(* a new Date in every render, so the effect is cleaned up and re-run after *)
(* every render of TimelineControl.                                         *)

\* variant: the effect returns no cleanup, the interval held by the ref
\* stays as it is
EffectCleanup_Missing(live) == live

\* the cleanup clears the interval held by playIntervalRef.current; what
\* it returns is whether that interval is still live afterwards
EffectCleanup(live) == FALSE

\* cleanup of the previous run, then the body: a new interval is stored in
\* the ref while playing (an interval the ref held and that was still live is
\* then out of reach), the held one is cleared otherwise
PlaybackEffect(playing) ==
    LET refLive == EffectCleanup(playIntervalLive)
    IN  /\ playIntervalLive' = IF mounted THEN playing ELSE playIntervalLive
        /\ orphanIntervalLive' =
               IF mounted THEN orphanIntervalLive \/ (playing /\ refLive)
               ELSE orphanIntervalLive

\* lastEvent names the handler only where the history is kept in detail
Ev(name) == IF detailedHistory THEN name ELSE "other"

\* the jump buttons are followed up to MaxOvershootDays outside the range
WithinExplored(t) ==
    /\ t >= Start - MaxOvershootDays * HoursPerDay
    /\ t <= End + MaxOvershootDays * HoursPerDay

-----------------------------------------------------------------------------
(* Initial state: stores and component state as constructed, and the layers *)
(* of the first run of the main rendering effect on the empty map           *)

\* everything but the record set, as constructed and after the mount effects
InitWith(recs) ==
    /\ selectedTimestamp = Now
    /\ isPlaying = FALSE
    /\ playbackSpeed = 1
    /\ isDragging = FALSE
    /\ showHeatmap = TRUE
    /\ visibleTypes = AllKinds
    /\ region = NoRegion
    /\ records = recs
    /\ heatLayersRef = BuildLayers(recs, Now, AllKinds).heat
    /\ circleLayersRef = BuildLayers(recs, Now, AllKinds).circle
    /\ glowLayersRef = BuildLayers(recs, Now, AllKinds).glow
    /\ mapLayers = heatLayersRef \cup circleLayersRef \cup glowLayersRef
    /\ passOutcome = "ok"
    /\ playIntervalLive = FALSE
    /\ orphanIntervalLive = FALSE
    /\ selectedType = "none"
    /\ dismissed = {}
    /\ visibleNotifications = NotificationEffect(Now, {}, NoRegion)
    /\ mounted = TRUE
    /\ user = NoUser
    /\ status = "anonymous"
    /\ storedToken = NoToken
    /\ storedRegion = NoRegion
    /\ initAuthInFlight = 0
    /\ scopeQuery = [called |-> FALSE]
    /\ lastEvent = "other"

Init ==
    /\ \E recs \in Datasets : InitWith(recs)
    /\ detailedHistory = FALSE

-----------------------------------------------------------------------------
(* Actions.  A write of selectedTimestamp, showHeatmap or visibleTypes      *)
(* re-renders MapView and re-runs the main rendering effect, whose          *)
(* dependency list names exactly these; the region is not in the list.      *)
(* A render of TimelineControl re-runs the playback effect; a write of      *)
(* selectedTimestamp, dismissed or region re-runs the notification effect.  *)
(* lastEvent records the boundary case of the step just taken:              *)
(* "tickPastEnd" for a tick whose prev + 1 hour lies past the end,          *)
(* "dragPastEnd" / "dragBeforeStart" for a drag with the pointer off the    *)
(* slider; for every other step the handler's name where the history is     *)
(* detailed, "other" where it is not.                                       *)

\* a write of the timeline store followed by the re-render it causes
CommitTimeline(state) ==
    /\ selectedTimestamp' = state.selectedTimestamp
    /\ isPlaying' = state.isPlaying
    /\ playbackSpeed' = state.playbackSpeed
    /\ MainRenderingEffect(state.selectedTimestamp, showHeatmap, visibleTypes)
    /\ PlaybackEffect(state.isPlaying)
    /\ visibleNotifications' =
           NotificationEffect(state.selectedTimestamp, dismissed, region)
    /\ UNCHANGED <<isDragging, showHeatmap, visibleTypes, region, storedRegion, records,
                   selectedType, dismissed, auxVars>>

\* play/pause button
TogglePlay ==
    /\ mounted
    /\ isPlaying' = ~isPlaying
    /\ PlaybackEffect(~isPlaying)
    /\ lastEvent' = Ev("togglePlay")
    /\ UNCHANGED <<selectedTimestamp, playbackSpeed, isDragging, showHeatmap,
                   visibleTypes, region, storedRegion, records, layerVars, panelVars,
                   auxVars>>

\* the callback of a live interval fires
Tick ==
    /\ playIntervalLive \/ orphanIntervalLive
    /\ CommitTimeline(PlaybackTick(TimelineStore))
    /\ lastEvent' = IF selectedTimestamp + TickHours > End
                      THEN "tickPastEnd" ELSE Ev("tick")

handleSliderClick(p) ==
    /\ mounted
    /\ CommitTimeline(setSelectedTimestamp(TimelineStore, newTimestamp(p)))
    /\ lastEvent' = Ev("sliderClick")

handleMouseDown ==
    /\ mounted
    /\ ~isDragging
    /\ isDragging' = TRUE
    /\ PlaybackEffect(isPlaying)
    /\ lastEvent' = Ev("mouseDown")
    /\ UNCHANGED <<timelineVars, showHeatmap, visibleTypes, region, storedRegion, records,
                   layerVars, panelVars, auxVars>>

\* the document listeners exist only while isDragging
handleMouseUp ==
    /\ mounted
    /\ isDragging
    /\ isDragging' = FALSE
    /\ PlaybackEffect(isPlaying)
    /\ lastEvent' = Ev("mouseUp")
    /\ UNCHANGED <<timelineVars, showHeatmap, visibleTypes, region, storedRegion, records,
                   layerVars, panelVars, auxVars>>

handleMouseMove(p) ==
    /\ mounted
    /\ isDragging
    /\ CommitTimeline(setSelectedTimestamp(TimelineStore,
                                           newTimestamp(ClampPercentage(p))))
    /\ lastEvent' = IF p > 100 THEN "dragPastEnd"
                    ELSE IF p < 0 THEN "dragBeforeStart" ELSE Ev("mouseMove")

jumpToNow ==
    /\ mounted
    /\ CommitTimeline(setSelectedTimestamp(TimelineStore, Now))
    /\ lastEvent' = Ev("jumpToNow")

jumpBackward ==
    /\ mounted
    /\ WithinExplored(selectedTimestamp - HoursPerDay)
    /\ CommitTimeline(setSelectedTimestamp(TimelineStore,
                                           selectedTimestamp - HoursPerDay))
    /\ lastEvent' = Ev("jumpBackward")

jumpForward ==
    /\ mounted
    /\ WithinExplored(selectedTimestamp + HoursPerDay)
    /\ CommitTimeline(setSelectedTimestamp(TimelineStore,
                                           selectedTimestamp + HoursPerDay))
    /\ lastEvent' = Ev("jumpForward")

\* variant: switching the heatmap also writes now into the timeline store
ToggleHeatmap_JumpsToNow ==
    /\ showHeatmap' = ~showHeatmap
    /\ selectedTimestamp' = Now
    /\ MainRenderingEffect(Now, ~showHeatmap, visibleTypes)
    /\ PlaybackEffect(isPlaying)
    /\ visibleNotifications' = NotificationEffect(Now, dismissed, region)
    /\ lastEvent' = Ev("toggleHeatmap")
    /\ UNCHANGED <<isPlaying, playbackSpeed, isDragging, visibleTypes, region, storedRegion,
                   records, selectedType, dismissed, auxVars>>

\* Header: onToggleHeatmap; Index re-renders and with it TimelineControl
ToggleHeatmap ==
    /\ showHeatmap' = ~showHeatmap
    /\ MainRenderingEffect(selectedTimestamp, ~showHeatmap, visibleTypes)
    /\ PlaybackEffect(isPlaying)
    /\ lastEvent' = Ev("toggleHeatmap")
    /\ UNCHANGED <<timelineVars, isDragging, visibleTypes, region, storedRegion, records,
                   panelVars, auxVars>>

\* variant: a kind is added if absent and never deleted
ToggledTypes_AddOnly(vis, type) == vis \cup {type}

\* the copy of the set with the kind deleted if present, added otherwise
ToggledTypes(vis, type) ==
    IF type \in vis THEN vis \ {type} ELSE vis \cup {type}

\* HazardLegend button -> MapView.handleToggleType
handleToggleType(type) ==
    LET next == ToggledTypes(visibleTypes, type)
    IN  /\ visibleTypes' = next
        /\ MainRenderingEffect(selectedTimestamp, showHeatmap, next)
        /\ lastEvent' = Ev("toggleType")
        /\ UNCHANGED <<timelineVars, isDragging, showHeatmap, region, storedRegion, records,
                       timerVars, panelVars, auxVars>>

\* saveRegion: the item is written for a region and removed for null
saveRegion(stored, r) == r

\* useAuthStore.setRegion: MapView re-renders (and flies to the region) but
\* no dependency of the main rendering effect changes; the notification
\* effect runs again
setRegion(r) ==
    /\ r # region
    /\ storedRegion' = saveRegion(storedRegion, r)
    /\ region' = r
    /\ visibleNotifications' = NotificationEffect(selectedTimestamp, dismissed, r)
    /\ lastEvent' = Ev("setRegion")
    /\ UNCHANGED <<timelineVars, isDragging, showHeatmap, visibleTypes,
                   records, layerVars, timerVars, selectedType, dismissed,
                   auxVars>>

Next ==
    \/ TogglePlay
    \/ Tick
    \/ \E p \in ClickPercentages : handleSliderClick(p)
    \/ handleMouseDown
    \/ handleMouseUp
    \/ \E p \in DragPercentages : handleMouseMove(p)
    \/ jumpToNow
    \/ jumpBackward
    \/ jumpForward
    \/ ToggleHeatmap
    \/ \E type \in LegendTypes \cap ModelKinds : handleToggleType(type)
    \/ \E r \in ModelRegions \cup {NoRegion} : setRegion(r)

Spec == Init /\ [][Next]_vars

(* The timeline transport on its own: no reports, every handler named in    *)
(* lastEvent, and the store's setPlaybackSpeed, which no component calls,   *)
(* exercised as a store operation.                                          *)

PlaybackSpeeds == {1, 2}

\* useTimelineStore.setPlaybackSpeed; TimelineControl re-renders
setPlaybackSpeed(speed) ==
    /\ playbackSpeed' = StoreSet(TimelineStore, [playbackSpeed |-> speed]).playbackSpeed
    /\ PlaybackEffect(isPlaying)
    /\ lastEvent' = Ev("setPlaybackSpeed")
    /\ UNCHANGED <<selectedTimestamp, isPlaying, isDragging, showHeatmap,
                   visibleTypes, region, storedRegion, records, layerVars, panelVars,
                   auxVars>>

\* variant: the page is torn down without the cleanup of the playback effect
Unmount_NoCleanup ==
    /\ mounted
    /\ mounted' = FALSE
    /\ isDragging' = FALSE
    /\ lastEvent' = Ev("unmount")
    /\ UNCHANGED <<timelineVars, showHeatmap, visibleTypes, region,
                   storedRegion, records, layerVars, timerVars,
                   panelVars, scopeQuery, detailedHistory, authVars>>

\* the page is torn down: the cleanup of the playback effect runs, the
\* component state and the document listeners go
Unmount ==
    /\ mounted
    /\ mounted' = FALSE
    /\ playIntervalLive' = EffectCleanup(playIntervalLive)
    /\ isDragging' = FALSE
    /\ lastEvent' = Ev("unmount")
    /\ UNCHANGED <<timelineVars, showHeatmap, visibleTypes, region,
                   storedRegion, records, layerVars, orphanIntervalLive,
                   panelVars, scopeQuery, detailedHistory, authVars>>

InitTimeline ==
    /\ InitWith({})
    /\ detailedHistory = TRUE

NextTimeline ==
    \/ TogglePlay
    \/ Tick
    \/ \E p \in ClickPercentages : handleSliderClick(p)
    \/ handleMouseDown
    \/ handleMouseUp
    \/ \E p \in DragPercentages : handleMouseMove(p)
    \/ jumpToNow
    \/ jumpBackward
    \/ jumpForward
    \/ \E speed \in PlaybackSpeeds : setPlaybackSpeed(speed)
    \/ Unmount

SpecTimeline == InitTimeline /\ [][NextTimeline]_vars

(* Playback left alone: the transport is playing at any instant the user   *)
(* can have put it at, inside the range or up to MaxOvershootDays outside   *)
(* it, and from then on only the interval fires.  setInterval keeps firing  *)
(* the callback of a live interval, hence weak fairness of Tick.            *)

InitPlayback ==
    /\ selectedTimestamp \in {t \in Start - MaxOvershootDays * HoursPerDay ..
                                    End + MaxOvershootDays * HoursPerDay :
                                WithinExplored(t)}
    /\ isPlaying = TRUE
    /\ playbackSpeed \in PlaybackSpeeds
    /\ isDragging = FALSE
    /\ showHeatmap = TRUE
    /\ visibleTypes = AllKinds
    /\ region = NoRegion
    /\ records = {}
    /\ heatLayersRef = {}
    /\ circleLayersRef = {}
    /\ glowLayersRef = {}
    /\ mapLayers = {}
    /\ passOutcome = "ok"
    /\ playIntervalLive = TRUE
    /\ orphanIntervalLive = FALSE
    /\ selectedType = "none"
    /\ dismissed = {}
    /\ visibleNotifications = NotificationEffect(selectedTimestamp, {}, NoRegion)
    /\ mounted = TRUE
    /\ user = NoUser
    /\ status = "anonymous"
    /\ storedToken = NoToken
    /\ storedRegion = NoRegion
    /\ initAuthInFlight = 0
    /\ scopeQuery = [called |-> FALSE]
    /\ lastEvent = "other"
    /\ detailedHistory = TRUE

NextPlayback == Tick

SpecPlayback == InitPlayback /\ [][NextPlayback]_vars /\ WF_vars(Tick)

(* isPointInBbox on its own: calls with points on, just inside and just    *)
(* outside every edge of a region's box and of the box widened by the       *)
(* margins, with and without the margin argument.                           *)

ScopeOffsets == {-101, -51, -50, -1, 0}
ScopeMargins == {0, 50, 100}
ScopeLats(bbox) == {bbox[1] + o : o \in ScopeOffsets} \cup
                   {bbox[3] - o : o \in ScopeOffsets}
ScopeLngs(bbox) == {bbox[2] + o : o \in ScopeOffsets} \cup
                   {bbox[4] - o : o \in ScopeOffsets}

CallIsPointInBbox(lat, lng, bbox, given, margin) ==
    /\ scopeQuery' =
         [called |-> TRUE, lat |-> lat, lng |-> lng, bbox |-> bbox,
          marginGiven |-> given, margin |-> margin,
          result |-> isPointInBbox(lat, lng, bbox,
                                   EffectiveMargin(given, margin))]
    /\ UNCHANGED <<timelineVars, isDragging, showHeatmap, visibleTypes, region, storedRegion,
                   records, layerVars, timerVars, panelVars, lastEvent,
                   detailedHistory, sessionVars>>

InitScope ==
    /\ InitWith({})
    /\ detailedHistory = FALSE

NextScope ==
    \E reg \in ModelRegions :
      \E lat \in ScopeLats(reg.bbox), lng \in ScopeLngs(reg.bbox) :
        \/ \E margin \in ScopeMargins :
              CallIsPointInBbox(lat, lng, reg.bbox, TRUE, margin)
        \/ CallIsPointInBbox(lat, lng, reg.bbox, FALSE, 0)

SpecScope == InitScope /\ [][NextScope]_vars

(* The sidebar and the notification panel: the timestamp is moved by slider *)
(* clicks and the jump buttons, the user selects and clears a region, picks *)
(* a kind in the sidebar and dismisses notification cards.                  *)

\* clicks at 108 h, 132 h and 151 h after the start of the range
PanelClickPercentages == {45, 55, 63}

\* the kinds picked in the sidebar: those with reports and one without
SidebarTypes == {KindSeq[i] : i \in 1..(NumKinds + 1)} \cup {"none"}

\* HazardSidebar badge -> Index.setSelectedType; Index re-renders and with
\* it TimelineControl
onSelectType(type) ==
    /\ selectedType' = type
    /\ PlaybackEffect(isPlaying)
    /\ lastEvent' = Ev("selectType")
    /\ UNCHANGED <<timelineVars, isDragging, showHeatmap, visibleTypes, region, storedRegion,
                   records, layerVars, dismissed, visibleNotifications,
                   auxVars>>

\* the close button of a card that is shown
handleDismiss(id) ==
    /\ \E k \in DOMAIN visibleNotifications : visibleNotifications[k] = id
    /\ dismissed' = dismissed \cup {id}
    /\ visibleNotifications' =
           NotificationEffect(selectedTimestamp, dismissed', region)
    /\ lastEvent' = Ev("dismiss")
    /\ UNCHANGED <<timelineVars, isDragging, showHeatmap, visibleTypes, region, storedRegion,
                   records, layerVars, timerVars, selectedType, auxVars>>

\* the panels are followed over the reports of agency source
PanelRecords == {r \in AllRecords : r.source = "agency"}

InitPanels ==
    /\ InitWith(PanelRecords)
    /\ detailedHistory = FALSE

NextPanels ==
    \/ \E p \in PanelClickPercentages : handleSliderClick(p)
    \/ jumpToNow
    \/ jumpBackward
    \/ jumpForward
    \/ \E r \in ModelRegions \cup {NoRegion} : setRegion(r)
    \/ \E type \in SidebarTypes : onSelectType(type)
    \/ \E i \in NotifIndexes : handleDismiss(NotifSeq[i].id)

SpecPanels == InitPanels /\ [][NextPanels]_vars

(* The map layers on their own: reports of every severity in every bucket, *)
(* of kinds that can be toggled in the legend, and one unverified social    *)
(* report that is the only active one for a while; the timestamp is moved   *)
(* by playback, slider clicks and the jump buttons, the heatmap and the     *)
(* kinds are toggled.  Every handler is named in lastEvent.                 *)

\* the kinds that carry reports here
LayerKinds == {KindSeq[i] : i \in 1..(NumKinds + 1)}

\* kind 1 occurs a day before now, the others half a day after now; every
\* report carries the seeded duration of its kind
SeverityRecords ==
    {[id |-> <<i, s, prov[1], prov[2], prov[3]>>,
      type |-> KindSeq[i], severity |-> SevSeq[s], lat |-> 1902, lng |-> 7285,
      timestamp |-> IF i = 1 THEN Now - HoursPerDay ELSE Now + 12,
      durationHours |-> HAZARD_DURATION_HOURS[KindSeq[i]],
      isPrediction |-> prov[3], source |-> prov[1],
      verificationStatus |-> prov[2]]
        : i \in 1..(NumKinds + 1), s \in 1..Len(SevSeq),
          prov \in {<<"agency", "verified", FALSE>>,
                    <<"agency", "verified", TRUE>>,
                    <<"news", "verified", FALSE>>,
                    <<"social", "ambiguous", FALSE>>}}

\* an unverified social report, active from four days to two days before now
LoneDiscardedRecord ==
    [id |-> <<1, 1, "social", "unverified", FALSE>>,
     type |-> KindSeq[1], severity |-> SevSeq[1], lat |-> 1902, lng |-> 7285,
     timestamp |-> Now - 4 * HoursPerDay, durationHours |-> 2 * HoursPerDay,
     isPrediction |-> FALSE, source |-> "social",
     verificationStatus |-> "unverified"]

\* a prediction carried by a verified news report of the second kind, active
\* from a day before now until the other reports of its kind begin
LoneNewsPrediction ==
    [id |-> <<2, 0, "news", "verified", TRUE>>,
     type |-> KindSeq[2], severity |-> SevSeq[3], lat |-> 1550, lng |-> 7380,
     timestamp |-> Now - HoursPerDay, durationHours |-> 30,
     isPrediction |-> TRUE, source |-> "news",
     verificationStatus |-> "verified"]

InitLayers ==
    /\ InitWith(SeverityRecords \cup {LoneDiscardedRecord, LoneNewsPrediction})
    /\ detailedHistory = TRUE

NextLayers ==
    \/ TogglePlay
    \/ Tick
    \/ \E p \in ClickPercentages : handleSliderClick(p)
    \/ jumpToNow
    \/ jumpBackward
    \/ jumpForward
    \/ ToggleHeatmap
    \/ \E type \in LegendTypes \cap LayerKinds : handleToggleType(type)

SpecLayers == InitLayers /\ [][NextLayers]_vars

(* The auth store: a page load calls initAuth, which is suspended at the   *)
(* request for the user while the user logs in, logs out, selects a region  *)
(* and moves the timestamp; the request ends with a user, with null or      *)
(* with an exception.  Every handler is named in lastEvent.                 *)

Tokens == {"jwt"}

\* loadSavedRegion: the stored item parsed, null if there is none
loadSavedRegion(stored) == stored

\* the ways api.getMe() can end: a user, null, or an exception
GetMeOutcomes ==
    {[kind |-> "user", user |-> u] : u \in Users}
      \cup {[kind |-> "null", user |-> NoUser],
            [kind |-> "throws", user |-> NoUser]}

\* useAuthStore.login, called after a successful login or signup request; the
\* header offers the login buttons while status is not authenticated
login(u, token) ==
    LET reg == IF u.region # NoRegion THEN u.region
                                      ELSE loadSavedRegion(storedRegion)
    IN  /\ status # "authenticated"
        /\ storedToken' = token
        /\ storedRegion' = IF reg # NoRegion THEN saveRegion(storedRegion, reg)
                                             ELSE storedRegion
        /\ user' = u
        /\ status' = "authenticated"
        /\ region' = reg
        /\ visibleNotifications' =
               NotificationEffect(selectedTimestamp, dismissed, reg)
        /\ lastEvent' = Ev("login")
        /\ UNCHANGED <<timelineVars, isDragging, showHeatmap, visibleTypes,
                       records, layerVars, timerVars, selectedType, dismissed,
                       mounted, initAuthInFlight, scopeQuery, detailedHistory>>

\* variant: logout that leaves the region and its stored copy
logout_KeepsRegion ==
    /\ status = "authenticated"
    /\ storedToken' = NoToken
    /\ user' = NoUser
    /\ status' = "anonymous"
    /\ lastEvent' = Ev("logout")
    /\ UNCHANGED <<timelineVars, isDragging, showHeatmap, visibleTypes, region,
                   storedRegion, records, layerVars, timerVars, panelVars,
                   mounted, initAuthInFlight, scopeQuery, detailedHistory>>

\* UserProfileDropdown.handleLogout: useAuthStore.logout, then api.logout;
\* the dropdown is rendered while status is authenticated
logout ==
    /\ status = "authenticated"
    /\ storedToken' = NoToken
    /\ storedRegion' = NoRegion
    /\ user' = NoUser
    /\ status' = "anonymous"
    /\ region' = NoRegion
    /\ visibleNotifications' =
           NotificationEffect(selectedTimestamp, dismissed, NoRegion)
    /\ lastEvent' = Ev("logout")
    /\ UNCHANGED <<timelineVars, isDragging, showHeatmap, visibleTypes,
                   records, layerVars, timerVars, selectedType, dismissed,
                   mounted, initAuthInFlight, scopeQuery, detailedHistory>>

\* UserProfileDropdown.handleSelectRegion / handleClearLocation
handleSelectRegion(r) ==
    /\ status = "authenticated"
    /\ setRegion(r)

\* the page is loaded: stores and component state are as constructed, the
\* requests of the previous page are gone, localStorage is kept, and AuthInit
\* calls initAuth, which runs up to await api.getMe()
PageLoad ==
    /\ selectedTimestamp' = Now
    /\ isPlaying' = FALSE
    /\ playbackSpeed' = 1
    /\ isDragging' = FALSE
    /\ showHeatmap' = TRUE
    /\ visibleTypes' = AllKinds
    /\ region' = NoRegion
    /\ heatLayersRef' = BuildLayers(records, Now, AllKinds).heat
    /\ circleLayersRef' = BuildLayers(records, Now, AllKinds).circle
    /\ glowLayersRef' = BuildLayers(records, Now, AllKinds).glow
    /\ mapLayers' = heatLayersRef' \cup circleLayersRef' \cup glowLayersRef'
    /\ passOutcome' = "ok"
    /\ playIntervalLive' = FALSE
    /\ orphanIntervalLive' = FALSE
    /\ selectedType' = "none"
    /\ dismissed' = {}
    /\ visibleNotifications' = NotificationEffect(Now, {}, NoRegion)
    /\ mounted' = TRUE
    /\ user' = NoUser
    /\ status' = IF storedToken = NoToken THEN "anonymous" ELSE "loading"
    /\ initAuthInFlight' = IF storedToken = NoToken THEN 0 ELSE 1
    /\ lastEvent' = Ev("pageLoad")
    /\ UNCHANGED <<records, storedToken, storedRegion, scopeQuery,
                   detailedHistory>>

\* initAuth resumes after await api.getMe()
initAuthResume(outcome) ==
    /\ initAuthInFlight > 0
    /\ initAuthInFlight' = initAuthInFlight - 1
    /\ CASE outcome.kind = "user" ->
              LET savedRegion == IF outcome.user.region # NoRegion
                                   THEN outcome.user.region
                                   ELSE loadSavedRegion(storedRegion)
              IN  /\ user' = outcome.user
                  /\ status' = "authenticated"
                  /\ region' = savedRegion
                  /\ UNCHANGED storedToken
         [] outcome.kind = "null" ->
              /\ storedToken' = NoToken
              /\ status' = "anonymous"
              /\ user' = NoUser
              /\ UNCHANGED region
         [] outcome.kind = "throws" ->
              /\ status' = "anonymous"
              /\ UNCHANGED <<user, region, storedToken>>
    /\ visibleNotifications' =
           NotificationEffect(selectedTimestamp, dismissed, region')
    /\ lastEvent' = Ev("initAuthResume")
    /\ UNCHANGED <<timelineVars, isDragging, showHeatmap, visibleTypes,
                   storedRegion, records, layerVars, timerVars, selectedType,
                   dismissed, mounted, scopeQuery, detailedHistory>>

InitAuth ==
    /\ InitWith(PanelRecords)
    /\ detailedHistory = TRUE

NextAuth ==
    \/ \E u \in Users, token \in Tokens : login(u, token)
    \/ logout
    \/ \E r \in ModelRegions \cup {NoRegion} : handleSelectRegion(r)
    \/ PageLoad
    \/ \E outcome \in GetMeOutcomes : initAuthResume(outcome)
    \/ \E p \in PanelClickPercentages : handleSliderClick(p)

SpecAuth == InitAuth /\ [][NextAuth]_vars

-----------------------------------------------------------------------------
(* Properties *)

\* the reports a layer was built from
LayerReports(l) == IF l.prim = "heat" THEN l.reports ELSE {l.report}

\* ids of the reports some layer on the map is derived from
ShownIds == UNION {LayerReports(l) : l \in mapLayers}

\* the reports that pass the timeline filter in the current state
CurrentFiltered == filtered(records, selectedTimestamp, visibleTypes)

BucketNames == {"agency", "prediction", "verified_secondary", "ambiguous_secondary"}

Bucket(b, f) ==
    CASE b = "agency" -> agencyReports(f)
      [] b = "prediction" -> predictionReports(f)
      [] b = "verified_secondary" -> verifiedNews(f)
      [] b = "ambiguous_secondary" -> ambiguousNews(f)

BucketsOf(r, f) == {b \in BucketNames : r \in Bucket(b, f)}

\* what a pass over the current inputs leaves on the map
ExpectedLayers ==
    IF ~showHeatmap THEN {}
    ELSE LET built == BuildLayers(records, selectedTimestamp, visibleTypes)
         IN  built.heat \cup built.glow \cup built.circle

\* C1: no layer on the map is derived from a report whose verificationStatus
\* is false_alert, whatever its source and isPrediction flag, in any state.
C1_FalseAlertNeverShown ==
    \A r \in records :
        r.verificationStatus = "false_alert" => r.id \notin ShownIds

\* C2: the expiry instant is exclusive: at every reference time at or after
\* timestamp + durationHours, the exact expiry instant included, the report is
\* inactive and in no layer.
C2_ExpiryExclusive ==
    \A r \in records :
        (r.durationHours # 0
           /\ selectedTimestamp >= r.timestamp + r.durationHours)
        => (~IsActive(r, selectedTimestamp) /\ r.id \notin ShownIds)

\* C3: nothing is shown early and the start instant is inclusive: before its
\* timestamp a report is inactive and in no layer; at its timestamp, and at
\* every instant from it up to but excluding timestamp + durationHours, it is
\* active, and an agency report of a visible kind then has its marker on the
\* map whenever the heatmap is on.
C3_StartInclusive ==
    \A r \in records :
        /\ selectedTimestamp < r.timestamp
             => (~IsActive(r, selectedTimestamp) /\ r.id \notin ShownIds)
        /\ ( \/ selectedTimestamp = r.timestamp
             \/ /\ r.durationHours # 0
                /\ r.timestamp <= selectedTimestamp
                /\ selectedTimestamp < r.timestamp + r.durationHours )
             => /\ IsActive(r, selectedTimestamp)
                /\ (showHeatmap /\ r.type \in visibleTypes
                      /\ r.source = "agency" /\ ~r.isPrediction)
                     => r.id \in ShownIds

\* a report is on the map at the very instant of its occurrence
C3_Witness ==
    \E r \in records :
        selectedTimestamp = r.timestamp /\ r.id \in ShownIds

\* C4: every active report whose verificationStatus is not false_alert is in
\* exactly one of the four buckets.
C4_BucketPartition ==
    \A r \in CurrentFiltered :
        r.verificationStatus # "false_alert"
          => Cardinality(BucketsOf(r, CurrentFiltered)) = 1

\* C5: an active prediction is in the prediction bucket and in no other, and
\* contributes to no heat layer.
C5_PredictionPrecedence ==
    \A r \in CurrentFiltered :
        r.isPrediction
          => /\ BucketsOf(r, CurrentFiltered) = {"prediction"}
             /\ \A l \in mapLayers : l.prim = "heat" => r.id \notin l.reports

\* C6: selectedTimestamp stays within [Start, End] in every reachable state.
C6_TimestampInRange ==
    /\ Start <= selectedTimestamp
    /\ selectedTimestamp <= End

\* C7: a tick that would move selectedTimestamp past the end of the range
\* leaves it exactly at the end with isPlaying false, in that same step, and
\* not at the start of the range.
C7_AutoStop ==
    lastEvent = "tickPastEnd"
      => /\ selectedTimestamp = End
         /\ ~isPlaying
         /\ selectedTimestamp # Start

C7_Witness == lastEvent = "tickPastEnd"

C9_RegionFilterApplied ==
    region # NoRegion
      => \A r \in records :
            ~isPointInBbox(r.lat, r.lng, region.bbox, MARGIN)
              => r.id \notin ShownIds

\* C10: after every pass the layers on the map are exactly those derived from
\* the current inputs and exactly those held by the three refs, so nothing of
\* an earlier pass survives; a step that leaves the inputs as they were leaves
\* the layers as they were.
C10_RebuildTotalIdempotent ==
    /\ [](/\ mapLayers = ExpectedLayers
          /\ mapLayers = heatLayersRef \cup circleLayersRef \cup glowLayersRef)
    /\ [][ (/\ selectedTimestamp' = selectedTimestamp
            /\ showHeatmap' = showHeatmap
            /\ visibleTypes' = visibleTypes)
           => mapLayers' = mapLayers ]_vars

\* a pass has replaced the layers of the initial pass by those of reports that
\* occur later: the map is not empty and nothing on it is left from the reports
\* of the first slot
C10_Witness ==
    /\ records = AllRecords
    /\ mapLayers # {}
    /\ \A id \in ShownIds : id[2] = 2

\* the discrete markers / glow rings / heat layers on the map that come from r
CirclesOf(r) == {l \in mapLayers : l.prim = "circle" /\ l.report = r.id}
GlowsOf(r) == {l \in mapLayers : l.prim = "glow" /\ l.report = r.id}
HeatOf(r) == {l \in mapLayers : l.prim = "heat" /\ r.id \in l.reports}

\* C11: with the heatmap on, every active agency report that is not a
\* prediction has exactly one circle marker and one glow ring and is in no heat
\* layer; every report of the verified or ambiguous secondary bucket is in
\* exactly one heat layer, that of its kind and tier, which holds its point,
\* and has no circle marker and no glow ring.
C11_TierDeterminesPrimitive ==
    showHeatmap =>
      \A r \in CurrentFiltered :
        /\ (r.source = "agency" /\ ~r.isPrediction)
             => /\ Cardinality(CirclesOf(r)) = 1
                /\ Cardinality(GlowsOf(r)) = 1
                /\ HeatOf(r) = {}
        /\ \A tier \in {"verified", "ambiguous"} :
             r \in Bucket(tier \o "_secondary", CurrentFiltered)
               => /\ Cardinality(HeatOf(r)) = 1
                  /\ \A l \in HeatOf(r) :
                       /\ l.type = r.type
                       /\ l.tier = tier
                       /\ \E p \in l.points : p[1] = r.lat /\ p[2] = r.lng
                  /\ CirclesOf(r) = {}
                  /\ GlowsOf(r) = {}

Discarded(r) ==
    /\ ~r.isPrediction
    /\ \/ /\ r.source \in {"news", "social"}
          /\ r.verificationStatus \notin {"verified", "ambiguous"}
       \/ r.source = "none"

\* C14: an active report that is not a prediction and is either from news or
\* social with status unverified, false_alert or absent, or without a source,
\* is in none of the four buckets and no layer on the map is derived from it.
C14_DiscardRule ==
    \A r \in CurrentFiltered :
        Discarded(r) => /\ BucketsOf(r, CurrentFiltered) = {}
                        /\ r.id \notin ShownIds

\* a pass has drawn layers while an unverified social report and a verified
\* report without a source were active, and drew none for them
C14_Witness ==
    /\ showHeatmap
    /\ mapLayers # {}
    /\ \E r \in CurrentFiltered :
         /\ Discarded(r) /\ r.source = "social"
         /\ r.verificationStatus = "unverified"
         /\ r.id \notin ShownIds
    /\ \E r \in CurrentFiltered :
         /\ Discarded(r) /\ r.source = "none"
         /\ r.verificationStatus = "verified"
         /\ r.id \notin ShownIds

\* ids of the reports in the layers of a pass over the current reference time,
\* heatmap switch and visible kinds; the pass reads no region, so these are
\* the layers computed with no region
NoRegionIds == UNION {LayerReports(l) : l \in ExpectedLayers}

TickEvents == {"tick", "tickPastEnd"}

\* C16 as stated: a tick happens only while isPlaying, and every tick adds
\* exactly one hour to selectedTimestamp whatever playbackSpeed is.
C16_TickAddsOneHour ==
    [][ lastEvent' \in TickEvents
          => /\ isPlaying
             /\ selectedTimestamp' = selectedTimestamp + TickHours ]_vars

\* C16 amended: a tick happens only while isPlaying, never once isPlaying is
\* false; it leaves playbackSpeed alone and, whatever playbackSpeed is, adds
\* exactly one hour to selectedTimestamp unless that would pass the end of the
\* range, in which case selectedTimestamp becomes the end.
C16_TickAddsOneHourUpToEnd ==
    [][ lastEvent' \in TickEvents
          => /\ isPlaying
             /\ playbackSpeed' = playbackSpeed
             /\ selectedTimestamp' =
                  IF selectedTimestamp + TickHours > End
                    THEN End ELSE selectedTimestamp + TickHours ]_vars

\* a tick has advanced a transport playing at speed 2
C16_Witness ==
    /\ lastEvent = "tick"
    /\ playbackSpeed = 2
    /\ isPlaying
    /\ selectedTimestamp # Now

\* C17: a playing transport that is left to its ticks, wherever it starts,
\* eventually has selectedTimestamp at the end of the range with isPlaying
\* false, and stays there.
C17_PlaybackTerminates ==
    isPlaying ~> [](selectedTimestamp = End /\ ~isPlaying)

\* the tick that would pass the end has stopped playback at the end, and no
\* interval is left to fire
C17_Witness ==
    /\ lastEvent = "tickPastEnd"
    /\ selectedTimestamp = End
    /\ ~isPlaying
    /\ ~playIntervalLive /\ ~orphanIntervalLive

DirectSetEvents ==
    {"jumpToNow", "jumpBackward", "jumpForward", "sliderClick", "mouseMove"}

\* C18: jumpToNow leaves selectedTimestamp at now, jumpBackward and
\* jumpForward move it by exactly one day back and forward, a click or a drag
\* on the slider leaves it at the instant under the pointer; each of them does
\* so whether the transport is playing or not and leaves isPlaying and
\* playbackSpeed as they were.
C18_DirectSetOperations ==
    [][ /\ lastEvent' = "jumpToNow" => selectedTimestamp' = Now
        /\ lastEvent' = "jumpBackward"
             => selectedTimestamp' = selectedTimestamp - HoursPerDay
        /\ lastEvent' = "jumpForward"
             => selectedTimestamp' = selectedTimestamp + HoursPerDay
        /\ lastEvent' = "sliderClick"
             => \E p \in ClickPercentages :
                   selectedTimestamp' = Start + (totalRange * p) \div 100
        /\ lastEvent' = "mouseMove"
             => \E p \in DragPercentages :
                   /\ 0 <= p /\ p <= 100
                   /\ selectedTimestamp' = Start + (totalRange * p) \div 100
        /\ lastEvent' \in DirectSetEvents
             => /\ isPlaying' = isPlaying
                /\ playbackSpeed' = playbackSpeed ]_vars

\* a playing transport at speed 2 has been stepped a day forward from now and
\* is still playing at speed 2
C18_Witness ==
    /\ lastEvent = "jumpForward"
    /\ selectedTimestamp = Now + HoursPerDay
    /\ isPlaying
    /\ playbackSpeed = 2

\* C19: isPointInBbox answers true exactly when south - margin <= lat <=
\* north + margin and west - margin <= lng <= east + margin, the edges
\* included, the margin being 0.5 degrees when none is given; so a point inside
\* the box is in scope, and a point in scope stays in scope under every larger
\* margin.
C19_InScope ==
    scopeQuery.called =>
      LET q == scopeQuery
          south == q.bbox[1]
          west == q.bbox[2]
          north == q.bbox[3]
          east == q.bbox[4]
          m == IF q.marginGiven THEN q.margin ELSE 50
      IN  /\ q.result <=> /\ south - m <= q.lat /\ q.lat <= north + m
                          /\ west - m <= q.lng /\ q.lng <= east + m
          /\ (/\ south <= q.lat /\ q.lat <= north
              /\ west <= q.lng /\ q.lng <= east) => q.result
          /\ q.result =>
               \A m2 \in ScopeMargins :
                  m2 >= m => isPointInBbox(q.lat, q.lng, q.bbox, m2)

\* a call without a margin for a point exactly half a degree south and half a
\* degree west of the box has answered true
C19_Witness ==
    /\ scopeQuery.called
    /\ ~scopeQuery.marginGiven
    /\ scopeQuery.lat = scopeQuery.bbox[1] - 50
    /\ scopeQuery.lng = scopeQuery.bbox[2] - 50
    /\ scopeQuery.result

\* the sidebar's list in the current state
SidebarList == filteredReports(hazardReports(records), selectedType, region)

\* the notifications that are not dismissed and occurred at most six hours
\* before the reference time and not after it
TimeAndDismissalFiltered ==
    {i \in NotifIndexes :
        /\ NotifSeq[i].id \notin dismissed
        /\ NotifSeq[i].timestamp <= selectedTimestamp
        /\ selectedTimestamp - NotifSeq[i].timestamp <= NotificationWindowHours}

VisibleIds == {visibleNotifications[k] : k \in DOMAIN visibleNotifications}

\* C20: with no region selected the sidebar lists exactly the agency reports
\* of the picked kind (all of them when no kind is picked), and the
\* notification panel shows exactly the notifications that pass the time and
\* dismissal tests.
C20_NoRegionExcludesNothing ==
    region = NoRegion =>
      /\ SidebarList = {r \in records : /\ ~r.isPrediction
                                        /\ r.source = "agency"
                                        /\ selectedType # "none"
                                             => r.type = selectedType}
      /\ VisibleIds = {NotifSeq[i].id : i \in TimeAndDismissalFiltered}
      /\ Len(visibleNotifications) = Cardinality(TimeAndDismissalFiltered)

\* with no region selected, after a dismissal, cards are shown and the sidebar
\* lists reports of the picked kind from both Mumbai and Goa
C20_Witness ==
    /\ region = NoRegion
    /\ dismissed # {}
    /\ visibleNotifications # <<>>
    /\ selectedType # "none"
    /\ \E r \in SidebarList : r.lat = 1902
    /\ \E r \in SidebarList : r.lat = 1550

\* the weights of C21, in hundredths
SpecifiedWeight(tier, sev) ==
    IF tier = "verified"
      THEN CASE sev = "critical" -> 100 [] sev = "high" -> 80
             [] sev = "medium" -> 55 [] sev = "low" -> 35
      ELSE CASE sev = "critical" -> 50 [] sev = "high" -> 35
             [] sev = "medium" -> 20 [] sev = "low" -> 10

\* severities from the lowest to the highest
SeverityRank(sev) == CHOOSE k \in 1..Len(SevSeq) : SevSeq[k] = sev

\* C21: the intensity of a heat point is 1.00 / 0.80 / 0.55 / 0.35 in a
\* verified layer and 0.50 / 0.35 / 0.20 / 0.10 in an ambiguous layer for
\* critical / high / medium / low: every heat layer on the map holds, for each
\* of its reports, the point with that weight and no point with another
\* weight; within a tier the weight grows strictly with the severity, and the
\* ambiguous weight is strictly below the verified weight of the same severity.
C21_HeatIntensity ==
    /\ \A l \in mapLayers :
         l.prim = "heat"
           => /\ \A r \in records :
                   r.id \in l.reports
                     => <<r.lat, r.lng, SpecifiedWeight(l.tier, r.severity)>>
                           \in l.points
              /\ \A p \in l.points :
                   \E r \in records :
                      /\ r.id \in l.reports
                      /\ p = <<r.lat, r.lng, SpecifiedWeight(l.tier, r.severity)>>
    /\ \A s1, s2 \in Severities :
         /\ SeverityRank(s1) < SeverityRank(s2)
              => /\ VerifiedIntensity(s1) < VerifiedIntensity(s2)
                 /\ AmbiguousIntensity(s1) < AmbiguousIntensity(s2)
         /\ AmbiguousIntensity(s1) < VerifiedIntensity(s1)

\* a verified and an ambiguous heat layer are on the map, each with the
\* points of all four severities
C21_Witness ==
    \A tier \in {"verified", "ambiguous"} :
       \E l \in mapLayers :
          /\ l.prim = "heat" /\ l.tier = tier
          /\ Cardinality(l.points) = Cardinality(Severities)

\* the radii of C22
SpecifiedRadius(sev) ==
    CASE sev = "critical" -> 10 [] sev = "high" -> 8
      [] sev = "medium" -> 6 [] sev = "low" -> 5

\* the severity of the report a marker was drawn for
MarkerSeverity(l) == (CHOOSE r \in records : r.id = l.report).severity

CircleMarkers == {l \in mapLayers : l.prim = "circle"}

\* C22: a circle marker has radius 10 / 8 / 6 / 5 for critical / high / medium
\* / low, whether it is an agency marker or a prediction marker, so two
\* markers of the same severity have the same radius; the radius grows
\* strictly with the severity.
C22_MarkerRadius ==
    /\ \A l \in CircleMarkers : l.radius = SpecifiedRadius(MarkerSeverity(l))
    /\ \A l1, l2 \in CircleMarkers :
         MarkerSeverity(l1) = MarkerSeverity(l2) => l1.radius = l2.radius
    /\ \A s1, s2 \in Severities :
         SeverityRank(s1) < SeverityRank(s2)
           => /\ MarkerRadius(s1) < MarkerRadius(s2)
              /\ PredictionRadius(s1) < PredictionRadius(s2)

\* agency markers and prediction markers of all four severities are on the map
C22_Witness ==
    \A sev \in Severities, dashed \in BOOLEAN :
       \E l \in CircleMarkers : l.dashed = dashed /\ MarkerSeverity(l) = sev

\* the steps of the timeline transport
TransportEvents ==
    {"togglePlay", "tick", "tickPastEnd", "sliderClick", "mouseMove",
     "dragPastEnd", "dragBeforeStart", "jumpToNow", "jumpBackward",
     "jumpForward", "setPlaybackSpeed"}

\* the steps that do nothing but run the main rendering effect again
PassEvents == {"toggleHeatmap", "toggleType"}

\* C23: no step changes the record set or a field of a report; a step that
\* only re-runs the rendering pass leaves selectedTimestamp, isPlaying and
\* playbackSpeed as they were, and whenever one of the three changes the step
\* is one of the transport.
C23_PassWritesNoTimelineState ==
    [][ /\ records' = records
        /\ lastEvent' \in PassEvents => UNCHANGED timelineVars
        /\ timelineVars' # timelineVars => lastEvent' \in TransportEvents ]_vars

\* a kind was toggled, which re-ran the pass, while the transport was playing
\* away from now, and it is still playing
C23_Witness ==
    /\ lastEvent = "toggleType"
    /\ isPlaying
    /\ selectedTimestamp > Now
    /\ mapLayers # {}

\* the tier of a report by the precedence of the classifier: a prediction
\* first, then agency, then the two secondary tiers, else discarded
TierOf(r) ==
    IF r.isPrediction THEN "prediction"
    ELSE IF r.source = "agency" THEN "agency"
    ELSE IF r.source \in {"news", "social"} /\ r.verificationStatus = "verified"
        THEN "verified"
    ELSE IF r.source \in {"news", "social"} /\ r.verificationStatus = "ambiguous"
        THEN "ambiguous"
    ELSE "discarded"

HeatLayers == {l \in mapLayers : l.prim = "heat"}

\* C24: every pass ends without error; with the heatmap on and every active
\* report discarded (or none active) the map holds no layer; no heat layer has
\* an empty point set; there is at most one heat layer per tier and kind, and
\* with the heatmap on the layer of a tier and kind is on the map iff an
\* active report is of that tier and kind.
C24_EmptyActiveSet ==
    /\ passOutcome = "ok"
    /\ (showHeatmap /\ \A r \in CurrentFiltered : TierOf(r) = "discarded")
         => mapLayers = {}
    /\ \A l \in HeatLayers : l.points # {} /\ l.reports # {}
    /\ \A l1, l2 \in HeatLayers :
         (l1.tier = l2.tier /\ l1.type = l2.type) => l1 = l2
    /\ showHeatmap =>
         \A tier \in {"verified", "ambiguous"}, k \in AllKinds :
           (\E l \in HeatLayers : l.tier = tier /\ l.type = k)
             <=> (\E r \in CurrentFiltered : r.type = k /\ TierOf(r) = tier)

\* the number of playback intervals that exist and are not cleared
LiveTimers ==
    (IF playIntervalLive THEN 1 ELSE 0) + (IF orphanIntervalLive THEN 1 ELSE 0)

\* C25: in every state at most one playback interval is live and none is
\* out of the ref's reach; none is live while isPlaying is false or after
\* TimelineControl is unmounted; and a firing of the interval moves
\* selectedTimestamp by one hour at most, never by two.
C25_AtMostOneTimer ==
    /\ [](/\ LiveTimers <= 1
          /\ ~orphanIntervalLive
          /\ ~isPlaying => LiveTimers = 0
          /\ ~mounted => LiveTimers = 0)
    /\ [][ lastEvent' \in TickEvents
             => selectedTimestamp' <= selectedTimestamp + TickHours ]_vars

\* the page was torn down while the transport was playing, after ticks and
\* re-renders, and no interval is left
C25_Witness ==
    /\ lastEvent = "unmount"
    /\ isPlaying
    /\ selectedTimestamp > Now
    /\ LiveTimers = 0

\* C26: while showHeatmap is false the map holds no hazard layer of any kind
\* and the three refs are empty, after every timeline and legend operation;
\* the step that switches it on leaves on the map exactly the layers built
\* from the selectedTimestamp and visibleTypes of that moment.
C26_HeatmapOffNoLayers ==
    /\ [](~showHeatmap => /\ mapLayers = {}
                          /\ heatLayersRef = {}
                          /\ circleLayersRef = {}
                          /\ glowLayersRef = {})
    /\ [][ (~showHeatmap /\ showHeatmap')
             => LET built == BuildLayers(records', selectedTimestamp',
                                         visibleTypes')
                IN  mapLayers' = built.heat \cup built.glow \cup built.circle ]_vars

\* the heatmap was switched on again at a timestamp and with a visible set
\* that were changed while it was off, and layers are on the map
C26_Witness ==
    /\ lastEvent = "toggleHeatmap"
    /\ showHeatmap
    /\ selectedTimestamp > Now
    /\ visibleTypes # AllKinds
    /\ mapLayers # {}

\* the reports of the record set a layer is derived from
ReportsOfLayer(l) == {r \in records : r.id \in LayerReports(l)}

\* C27: before any toggle all seven kinds are visible; no layer is derived
\* from a report whose kind is not in visibleTypes; a legend toggle flips the
\* membership of one kind and of no other; toggling a kind twice gives the
\* set back, and the layers are those built from the set.
C27_KindVisibility ==
    /\ [](/\ lastEvent = "other" => visibleTypes = AllKinds
          /\ \A l \in mapLayers : \A r \in ReportsOfLayer(l) :
               r.type \in visibleTypes
          /\ \A k \in AllKinds :
               ToggledTypes(ToggledTypes(visibleTypes, k), k) = visibleTypes
          /\ mapLayers = ExpectedLayers)
    /\ [][ lastEvent' = "toggleType"
             => \E k \in AllKinds :
                  /\ (k \in visibleTypes') # (k \in visibleTypes)
                  /\ visibleTypes' \ {k} = visibleTypes \ {k}
                  /\ visibleTypes' = ToggledTypes(visibleTypes, k) ]_vars

\* a kind was switched off while a report of it is active, other layers are
\* on the map
C27_Witness ==
    /\ lastEvent = "toggleType"
    /\ showHeatmap
    /\ visibleTypes # AllKinds
    /\ filtered(records, selectedTimestamp, AllKinds) # CurrentFiltered
    /\ mapLayers # {}

\* the notification a card of the list shows
ShownNotification(k) ==
    NotifSeq[CHOOSE i \in 1..Len(NotifSeq) : NotifSeq[i].id = visibleNotifications[k]]

\* C28: the list holds at most four notifications, none twice, newest first,
\* each not later than selectedTimestamp and at most six hours earlier and,
\* with a region selected, inside the region's box widened by the margin, and
\* none that is dismissed; the dismissed set only grows.
C28_VisibleNotifications ==
    /\ [](/\ Len(visibleNotifications) <= 4
          /\ Cardinality(VisibleIds) = Len(visibleNotifications)
          /\ \A k, l \in DOMAIN visibleNotifications :
               k < l => ShownNotification(k).timestamp
                          >= ShownNotification(l).timestamp
          /\ \A k \in DOMAIN visibleNotifications :
               LET n == ShownNotification(k)
               IN  /\ n.timestamp <= selectedTimestamp
                   /\ n.timestamp >= selectedTimestamp - 6
                   /\ region # NoRegion =>
                        /\ n.lat >= region.bbox[1] - 50
                        /\ n.lat <= region.bbox[3] + 50
                        /\ n.lng >= region.bbox[2] - 50
                        /\ n.lng <= region.bbox[4] + 50
          /\ VisibleIds \cap dismissed = {})
    /\ [][dismissed \subseteq dismissed']_vars

\* with a region selected, a card of the region is shown at a timestamp
\* selected after cards of an earlier hour were dismissed
C28_Witness ==
    /\ region # NoRegion
    /\ dismissed # {}
    /\ visibleNotifications # <<>>
    /\ \A id \in dismissed : id \notin VisibleIds
    /\ \E i \in NotifIndexes :
         /\ NotifSeq[i].id \in dismissed
         /\ NotifSeq[i].timestamp < selectedTimestamp - 6

\* C29: the store shows status authenticated only while a token is stored,
\* and once the store is logged out (user null, status anonymous, no token)
\* it stays so at every step that is neither a login nor a call of initAuth.
C29_LogoutNotUndone ==
    /\ [](status = "authenticated" => storedToken # NoToken)
    /\ [][ (/\ user = NoUser /\ status = "anonymous" /\ storedToken = NoToken
            /\ lastEvent' \notin {"login", "pageLoad"})
             => (user' = NoUser /\ status' = "anonymous") ]_vars

\* C30: right after logout user is null, status anonymous, region null, and
\* neither the token nor the region is stored, so the sidebar lists every
\* agency report of the picked kind and the notification panel every
\* notification that passes the time and dismissal tests; and in every state
\* status authenticated comes with a user.
C30_LogoutClearsSession ==
    /\ lastEvent = "logout" =>
         /\ user = NoUser
         /\ status = "anonymous"
         /\ region = NoRegion
         /\ storedToken = NoToken
         /\ storedRegion = NoRegion
         /\ SidebarList = SidebarTypeFilter(hazardReports(records), selectedType)
         /\ VisibleIds = {NotifSeq[i].id : i \in TimeAndDismissalFiltered}
    /\ status = "authenticated" => user # NoUser

\* a user with a region has logged out at an hour at which the region was
\* hiding cards
C30_Witness ==
    /\ lastEvent = "logout"
    /\ region = NoRegion
    /\ Len(visibleNotifications) >= 2

====
